---- MODULE Spec2Model ----
(***************************************************************************)
(* A model of gkBoot's client side: the field-to-HTTP-part mapping engine  *)
(* (GenerateClientRequest, assignRequest, readClientTag, the part writers  *)
(* and the value converter), the request executor (DoRequest,              *)
(* DoGeneratedRequest) and the request-scoped log accumulator              *)
(* (response.ExpandedLogging).                                             *)
(*                                                                         *)
(* Strings are sequences of one-character strings, so that trimming,       *)
(* splitting, escaping, substring search and replacement are computed as   *)
(* the Go code computes them.  A string constant that the code never scans *)
(* (a MIME type, a status text) is written as one symbol.                  *)
(***************************************************************************)
EXTENDS Integers, Sequences, FiniteSets, TLC

VARIABLES
    (* request generation and DoRequest *)
    serviceRequest, \* the caller's request record and its capabilities
    baseUrl,        \* the base URL handed to GenerateClientRequest
    pc,             \* position of the DoRequest call
    r,              \* the *http.Request under construction (or NoRequest)
    stack,          \* the active assignRequest invocations, innermost last
    genErr,         \* the error GenerateClientRequest / a writer returned
    calls,          \* log of the writer invocations, in order
    (* single writer / tag resolver applications *)
    unitIn,         \* the inputs of the function applied
    unitOut,        \* its result
    (* request executor *)
    defaultClient,  \* http.DefaultClient (a process-wide pointer)
    exec,           \* the DoGeneratedRequest call in progress
    target,         \* the response target the caller passed
    netLog,         \* the transport used by each client.Do, in order
    nCalls,         \* number of DoGeneratedRequest calls started
    (* response.ExpandedLogging *)
    heap,           \* the Go maps allocated so far: id -> map
    lvalues,        \* ExpandedLogging.lvalues: a map id, or NilMap
    lock,           \* ExpandedLogging.lock: the holder, or Unlocked
    gpc,            \* per goroutine: position inside Log / GetAll
    gloc,           \* per goroutine: locals of the call in progress
    history,        \* the Log calls in the order they acquired the lock
    returned        \* the maps GetAll has returned: sequence of map ids

vars == <<serviceRequest, baseUrl, pc, r, stack, genErr, calls, unitIn, unitOut,
          defaultClient, exec, target, netLog, nCalls,
          heap, lvalues, lock, gpc, gloc, history, returned>>

genVars  == <<serviceRequest, baseUrl, pc, r, stack, genErr, calls>>
unitVars == <<unitIn, unitOut>>
execVars == <<defaultClient, exec, target, netLog, nCalls>>
logVars  == <<heap, lvalues, lock, gpc, gloc, history, returned>>

-----------------------------------------------------------------------------
(* Strings *)

\* A *string: nil, or a pointer to s.
NilStr == [nil |-> TRUE, s |-> <<>>]

StrPtr(s) == [nil |-> FALSE, s |-> s]

\* strings.HasPrefix(s[i:], sub), i counted from 1
MatchAt(s, i, sub) ==
    /\ i + Len(sub) - 1 <= Len(s)
    /\ \A j \in 1..Len(sub) : s[i + j - 1] = sub[j]

\* strings.Contains
Contains(s, sub) == \E i \in 1..(Len(s) + 1) : MatchAt(s, i, sub)

\* strings.HasSuffix
HasSuffix(s, suf) ==
    /\ Len(suf) <= Len(s)
    /\ MatchAt(s, Len(s) - Len(suf) + 1, suf)

RECURSIVE ReplaceFrom(_, _, _, _)
\* strings.Replace(s, old, new, -1) for a non-empty old, scanning from index i:
\* leftmost occurrences, non-overlapping, the replacement is not rescanned.
ReplaceFrom(s, i, old, new) ==
    IF i > Len(s) THEN <<>>
    ELSE IF MatchAt(s, i, old)
         THEN new \o ReplaceFrom(s, i + Len(old), old, new)
         ELSE <<s[i]>> \o ReplaceFrom(s, i + 1, old, new)

ReplaceAll(s, old, new) == ReplaceFrom(s, 1, old, new)

RECURSIVE TrimLeft(_, _)
\* strings.TrimLeft(s, c) for a one-character cutset
TrimLeft(s, c) ==
    IF Len(s) > 0 /\ s[1] = c THEN TrimLeft(Tail(s), c) ELSE s

RECURSIVE TrimRight(_, _)
\* strings.TrimRight(s, c) for a one-character cutset
TrimRight(s, c) ==
    IF Len(s) > 0 /\ s[Len(s)] = c
    THEN TrimRight(SubSeq(s, 1, Len(s) - 1), c)
    ELSE s

RECURSIVE FirstSegment(_, _)
\* strings.Split(s, sep)[0] for a one-character separator
FirstSegment(s, sep) ==
    IF Len(s) = 0 \/ s[1] = sep THEN <<>>
    ELSE <<s[1]>> \o FirstSegment(Tail(s), sep)

RECURSIVE Join(_, _)
\* strings.Join
Join(strs, sep) ==
    IF Len(strs) = 0 THEN <<>>
    ELSE IF Len(strs) = 1 THEN strs[1]
    ELSE strs[1] \o sep \o Join(Tail(strs), sep)

\* url.QueryEscape of one character: letters, digits and - _ . ~ are kept,
\* a space becomes +, every other byte becomes %XX.
EscapeChar(c) ==
    CASE c = " "  -> <<"+">>
      [] c = "{"  -> <<"%", "7", "B">>
      [] c = "}"  -> <<"%", "7", "D">>
      [] c = "/"  -> <<"%", "2", "F">>
      [] c = ","  -> <<"%", "2", "C">>
      [] c = "\"" -> <<"%", "2", "2">>
      [] c = ":"  -> <<"%", "3", "A">>
      [] c = "%"  -> <<"%", "2", "5">>
      [] c = "?"  -> <<"%", "3", "F">>
      [] c = "="  -> <<"%", "3", "D">>
      [] c = "["  -> <<"%", "5", "B">>
      [] c = "]"  -> <<"%", "5", "D">>
      [] OTHER    -> <<c>>

RECURSIVE QueryEscape(_)
\* url.QueryEscape
QueryEscape(s) ==
    IF Len(s) = 0 THEN <<>> ELSE EscapeChar(s[1]) \o QueryEscape(Tail(s))

Digits == <<"0", "1", "2", "3", "4", "5", "6", "7", "8", "9">>

RECURSIVE FormatUint(_)
\* strconv.FormatUint(n, 10)
FormatUint(n) ==
    IF n < 10 THEN <<Digits[n + 1]>>
    ELSE FormatUint(n \div 10) \o <<Digits[(n % 10) + 1]>>

\* strconv.FormatInt(n, 10)
FormatInt(n) == IF n < 0 THEN <<"-">> \o FormatUint(0 - n) ELSE FormatUint(n)

\* strconv.FormatBool
FormatBool(b) == IF b THEN <<"t", "r", "u", "e">> ELSE <<"f", "a", "l", "s", "e">>

\* strconv.ParseBool, the error dropped: the spellings of true
ParseBool(s) ==
    s \in { <<"1">>, <<"t">>, <<"T">>, <<"T", "R", "U", "E">>,
            <<"t", "r", "u", "e">>, <<"T", "r", "u", "e">> }

-----------------------------------------------------------------------------
(* Values (reflect.Value) and fields (reflect.StructField with its value) *)

\* The zero reflect.Value: what Elem() of a nil pointer yields.
Invalid == [k |-> "Invalid"]

StringV(s) == [k |-> "String", s |-> s]

IntV(n) == [k |-> "Int", n |-> n]

BoolV(b) == [k |-> "Bool", b |-> b]

PtrTo(v) == [k |-> "Ptr", elem |-> v]

NilPtr == PtrTo(Invalid)

SliceV(elems) == [k |-> "Slice", elems |-> elems]

StructV(fields) == [k |-> "Struct", fields |-> fields]

\* A kind neither the converter nor encoding/json supports.
ChanV == [k |-> "Chan"]

\* reflect.StructTag.Lookup: (value, ok)
NoTag == [ok |-> FALSE, v |-> <<>>]

Tag(s) == [ok |-> TRUE, v |-> s]

NoTags == [request |-> NoTag, alias |-> NoTag, json |-> NoTag, urlEncode |-> NoTag]

\* What the structured schema-tag source yields for a field that has none.
NoSwag == [ok |-> FALSE, requestPart |-> <<>>, alias |-> <<>>, jsonAlias |-> <<>>]

\* the value behind a chain of non-nil pointers (src/go.mod:311-315)
RECURSIVE Deref(_)
Deref(v) == IF v.k = "Ptr" /\ v.elem.k # "Invalid" THEN Deref(v.elem) ELSE v

-----------------------------------------------------------------------------
(* encoding/json.Marshal, for the kinds of the model's values *)

RECURSIVE JsonEscape(_)
JsonEscape(s) ==
    IF Len(s) = 0 THEN <<>>
    ELSE (IF s[1] \in {"\"", "\\"} THEN <<"\\", s[1]>> ELSE <<s[1]>>)
         \o JsonEscape(Tail(s))

JsonQuote(s) == <<"\"">> \o JsonEscape(s) \o <<"\"">>

\* The object key of a field: the first segment of its json tag, else its name.
JsonKey(f) ==
    LET seg == FirstSegment(f.tags.json.v, ",")
    IN  IF f.tags.json.ok /\ Len(seg) > 0 THEN seg ELSE f.name

RECURSIVE MarshalValue(_)
RECURSIVE MarshalMembers(_)
RECURSIVE MarshalElems(_)

\* The members "key":value of a struct's fields, embedded structs flattened in
\* place.  [err, members]
MarshalMembers(fields) ==
    IF Len(fields) = 0 THEN [err |-> FALSE, members |-> <<>>]
    ELSE
      LET f    == fields[1]
          rest == MarshalMembers(Tail(fields))
          dv   == Deref(f.val)
          skip == \/ f.tags.json.ok /\ f.tags.json.v = <<"-">>
                  \/ ~f.exported /\ ~(f.anonymous /\ dv.k = "Struct")
                  \/ f.anonymous /\ ~f.tags.json.ok /\ f.val.k = "Ptr" /\ dv.k # "Struct"
          flat == f.anonymous /\ ~f.tags.json.ok /\ dv.k = "Struct"
          here == IF skip THEN [err |-> FALSE, members |-> <<>>]
                  ELSE IF flat THEN MarshalMembers(dv.fields)
                  ELSE LET m == MarshalValue(f.val)
                       IN  [err |-> m.err,
                            members |-> <<JsonQuote(JsonKey(f)) \o <<":">> \o m.s>>]
      IN  [err |-> here.err \/ rest.err, members |-> here.members \o rest.members]

MarshalElems(elems) ==
    IF Len(elems) = 0 THEN [err |-> FALSE, members |-> <<>>]
    ELSE LET m    == MarshalValue(elems[1])
             rest == MarshalElems(Tail(elems))
         IN  [err |-> m.err \/ rest.err, members |-> <<m.s>> \o rest.members]

\* json.Marshal(v): [err, s]
MarshalValue(v) ==
    CASE v.k = "Invalid" -> [err |-> FALSE, s |-> <<"n", "u", "l", "l">>]
      [] v.k = "String"  -> [err |-> FALSE, s |-> JsonQuote(v.s)]
      [] v.k = "Int"     -> [err |-> FALSE, s |-> FormatInt(v.n)]
      [] v.k = "Bool"    -> [err |-> FALSE, s |-> FormatBool(v.b)]
      [] v.k = "Ptr"     -> MarshalValue(v.elem)
      [] v.k = "Slice"   ->
            LET m == MarshalElems(v.elems)
            IN  [err |-> m.err, s |-> <<"[">> \o Join(m.members, <<",">>) \o <<"]">>]
      [] v.k = "Struct"  ->
            LET m == MarshalMembers(v.fields)
            IN  [err |-> m.err, s |-> <<"{">> \o Join(m.members, <<",">>) \o <<"}">>]
      [] OTHER           -> [err |-> TRUE, s |-> <<>>]

-----------------------------------------------------------------------------
(* Value Converter *)

RECURSIVE convertBaseValueToString(_, _, _)
RECURSIVE convertSliceFrom(_, _, _, _)

\* The loop of convertSliceToStringValue from element i on: the converted
\* elements, nil ones skipped, each escaped once more when urlEncode is set.
convertSliceFrom(elems, i, canInterface, urlEncode) ==
    IF i > Len(elems) THEN <<>>
    ELSE LET currentStr == convertBaseValueToString(elems[i], canInterface, urlEncode)
             rest       == convertSliceFrom(elems, i + 1, canInterface, urlEncode)
         IN  IF currentStr.nil THEN rest
             ELSE <<IF urlEncode THEN QueryEscape(currentStr.s) ELSE currentStr.s>>
                  \o rest

convertSliceToStringValue(value, canInterface, urlEncode) ==
    Join(convertSliceFrom(value.elems, 1, canInterface, urlEncode), <<",">>)

\* canInterface is src.CanInterface(): false for a value read through an
\* unexported field.  The signed and unsigned integer kinds share FormatInt /
\* FormatUint; the model's values hold no floating-point or complex numbers.
convertBaseValueToString(src, canInterface, urlEncode) ==
    IF src.k = "Invalid" THEN NilStr
    ELSE IF src.k = "Ptr"
    THEN convertBaseValueToString(src.elem, canInterface, urlEncode)
    ELSE IF src.k = "Slice"
    THEN StrPtr(convertSliceToStringValue(src, canInterface, urlEncode))
    ELSE
      LET result ==
            CASE src.k = "String" -> src.s
              [] src.k = "Int"    -> FormatInt(src.n)
              [] src.k = "Bool"   -> FormatBool(src.b)
              [] src.k = "Struct" ->
                    IF canInterface
                    THEN LET m == MarshalValue(src)
                         IN  IF m.err THEN <<>> ELSE m.s
                    ELSE <<"n", "u", "l", "l">>
              [] OTHER            -> <<"?">>
      IN  StrPtr(IF urlEncode THEN QueryEscape(result) ELSE result)

-----------------------------------------------------------------------------
(* Tag Resolver *)

\* The structured schema-tag source of a field: (requestPart, alias,
\* jsonAlias, ok).  Its result is part of the field's declared metadata.
fromSwaggestTag(field) == field.swag

\* The serialization alias of a json tag that is present.
JsonAliasDashCommaSkipped(tag) ==
    LET seg == FirstSegment(tag, ",") IN IF seg = <<"-">> THEN <<>> ELSE seg

jsonAliasOf(tag) ==
    IF tag = <<"-", ",">> THEN <<"-">>
    ELSE LET seg == FirstSegment(tag, ",")
         IN  IF seg = <<"-">> THEN <<>> ELSE seg

readClientTag(field) ==
    LET encode == IF field.tags.urlEncode.ok THEN field.tags.urlEncode.v ELSE <<>>
        sw     == fromSwaggestTag(field)
    IN  IF sw.ok
        THEN [requestPart |-> sw.requestPart, alias |-> sw.alias,
              jsonAlias |-> sw.jsonAlias, encode |-> encode]
        ELSE [requestPart |-> IF field.tags.request.ok THEN field.tags.request.v
                              ELSE sw.requestPart,
              alias       |-> IF field.tags.alias.ok THEN field.tags.alias.v
                              ELSE sw.alias,
              jsonAlias   |-> IF field.tags.json.ok THEN jsonAliasOf(field.tags.json.v)
                              ELSE sw.jsonAlias,
              encode      |-> encode]

\* The wire name assignRequest computes before calling a writer.
wireName(name, alias, jsonAlias) ==
    LET n1 == IF jsonAlias # <<>> THEN jsonAlias ELSE name
    IN  IF alias # <<>> THEN alias ELSE n1

-----------------------------------------------------------------------------
(* The outbound request, an http.Request *)

NoErr == [kind |-> "nil", field |-> <<>>]

Err(kind, fieldName) == [kind |-> kind, field |-> fieldName]

ContentType == <<"C", "o", "n", "t", "e", "n", "t", "-", "T", "y", "p", "e">>

ApplicationJson == <<"application/json">>

LowerLetters == <<"a", "b", "c", "d", "e", "f", "g", "h", "i", "j", "k", "l", "m",
                  "n", "o", "p", "q", "r", "s", "t", "u", "v", "w", "x", "y", "z">>

UpperLetters == <<"A", "B", "C", "D", "E", "F", "G", "H", "I", "J", "K", "L", "M",
                  "N", "O", "P", "Q", "R", "S", "T", "U", "V", "W", "X", "Y", "Z">>

Upper(c) ==
    IF \E i \in DOMAIN LowerLetters : LowerLetters[i] = c
    THEN UpperLetters[CHOOSE i \in DOMAIN LowerLetters : LowerLetters[i] = c]
    ELSE c

Lower(c) ==
    IF \E i \in DOMAIN UpperLetters : UpperLetters[i] = c
    THEN LowerLetters[CHOOSE i \in DOMAIN UpperLetters : UpperLetters[i] = c]
    ELSE c

\* A byte http allows in a header field name.
IsTokenChar(c) ==
    \/ \E i \in DOMAIN LowerLetters : c \in {LowerLetters[i], UpperLetters[i]}
    \/ \E i \in DOMAIN Digits : c = Digits[i]
    \/ c \in {"-", "_", ".", "~"}

\* textproto.CanonicalMIMEHeaderKey: the first letter and each letter after a
\* hyphen in upper case, the others in lower case; a name holding a byte that
\* is no token character is left as it is.
CanonicalMIMEHeaderKey(k) ==
    IF \E i \in DOMAIN k : ~IsTokenChar(k[i]) THEN k
    ELSE [i \in DOMAIN k |->
            IF i = 1 \/ k[i - 1] = "-" THEN Upper(k[i]) ELSE Lower(k[i])]

\* An http.Header / url.Values: a function from the keys present to the
\* sequence of their values.
EmptyValues == [k \in {} |-> <<>>]

ValuesGet(h, k) == IF k \in DOMAIN h /\ Len(h[k]) > 0 THEN h[k][1] ELSE <<>>

ValuesAdd(h, k, v) ==
    [x \in DOMAIN h \cup {k} |->
        IF x = k THEN (IF k \in DOMAIN h THEN h[k] ELSE <<>>) \o <<v>> ELSE h[x]]

ValuesSet(h, k, v) == [x \in DOMAIN h \cup {k} |-> IF x = k THEN <<v>> ELSE h[x]]

HeaderGet(h, k) == ValuesGet(h, CanonicalMIMEHeaderKey(k))

HeaderAdd(h, k, v) == ValuesAdd(h, CanonicalMIMEHeaderKey(k), v)

HeaderSet(h, k, v) == ValuesSet(h, CanonicalMIMEHeaderKey(k), v)

\* http.NewRequest(method, url, body): the URL is kept as its path and its
\* query values (RawQuery is the encoding of the values, which Query() parses
\* back); body is a *string, nil for no body.
NewRequest(method, url, body) ==
    [method |-> method, url |-> url, header |-> EmptyValues, body |-> body]

NoRequest == [method |-> <<>>, url |-> [host |-> <<>>, path |-> <<>>, query |-> EmptyValues],
              header |-> EmptyValues, body |-> NilStr]

RECURSIVE DropBytes(_, _)
DropBytes(s, bad) ==
    IF Len(s) = 0 THEN <<>>
    ELSE (IF s[1] \in bad THEN <<>> ELSE <<s[1]>>) \o DropBytes(Tail(s), bad)

\* http.sanitizeCookieValue: the bytes a cookie value may not hold are
\* dropped; a value holding a space or a comma is quoted.
sanitizeCookieValue(v) ==
    LET kept == DropBytes(v, {"\"", ";", "\\"})
    IN  IF \E i \in DOMAIN kept : kept[i] \in {" ", ","}
        THEN <<"\"">> \o kept \o <<"\"">>
        ELSE kept

\* Request.AddCookie: one Cookie header line, the cookies joined by "; "
AddCookie(req, name, value) ==
    LET s == name \o <<"=">> \o sanitizeCookieValue(value)
        c == HeaderGet(req.header, <<"C", "o", "o", "k", "i", "e">>)
    IN  [req EXCEPT !.header =
            HeaderSet(@, <<"C", "o", "o", "k", "i", "e">>,
                      IF c # <<>> THEN c \o <<";", " ">> \o s ELSE s)]

-----------------------------------------------------------------------------
(* Part writers: each returns [err, r], the error and the request it leaves *)

writeRequestCookie(req, fieldName, fieldValue, canInterface, isRequired, urlEncode) ==
    LET convertedValue == convertBaseValueToString(fieldValue, canInterface, urlEncode)
    IN  IF isRequired /\ (convertedValue.nil \/ convertedValue.s = <<>>)
        THEN [err |-> Err("required", fieldName), r |-> req]
        ELSE [err |-> NoErr,
              r   |-> AddCookie(req, fieldName,
                                IF convertedValue.nil THEN <<>> ELSE convertedValue.s)]

writeRequestHeader(req, fieldName, fieldValue, canInterface, isRequired, urlEncode) ==
    LET convertedValue == convertBaseValueToString(fieldValue, canInterface, urlEncode)
    IN  IF isRequired /\ (convertedValue.nil \/ convertedValue.s = <<>>)
        THEN [err |-> Err("required", fieldName), r |-> req]
        ELSE [err |-> NoErr,
              r   |-> [req EXCEPT !.header =
                         HeaderAdd(@, fieldName,
                                   IF convertedValue.nil THEN <<>> ELSE convertedValue.s)]]

writeRequestQueryParam(req, fieldName, fieldValue, canInterface, isRequired, urlEncode) ==
    LET convertedValue == convertBaseValueToString(fieldValue, canInterface, FALSE)
    IN  IF isRequired /\ (convertedValue.nil \/ convertedValue.s = <<>>)
        THEN [err |-> Err("required", fieldName), r |-> req]
        ELSE [err |-> NoErr,
              r   |-> [req EXCEPT !.url.query =
                         ValuesAdd(@, fieldName,
                                   IF convertedValue.nil THEN <<>> ELSE convertedValue.s)]]

writeRequestBodyKeepFirst(req, fieldName, fieldValue, canInterface) ==
    LET r1 == [req EXCEPT !.header = HeaderSet(@, ContentType, ApplicationJson)]
    IN  IF canInterface
        THEN LET m == MarshalValue(fieldValue)
             IN  IF m.err THEN [err |-> Err("marshal", fieldName), r |-> r1]
                 ELSE [err |-> NoErr,
                       r   |-> IF req.body.nil THEN [r1 EXCEPT !.body = StrPtr(m.s)]
                               ELSE r1]
        ELSE [err |-> Err("nointerface", fieldName), r |-> r1]

writeRequestBody(req, fieldName, fieldValue, canInterface) ==
    LET r1 == [req EXCEPT !.header = HeaderSet(@, ContentType, ApplicationJson)]
    IN  IF canInterface
        THEN LET m == MarshalValue(fieldValue)
             IN  IF m.err THEN [err |-> Err("marshal", fieldName), r |-> r1]
                 ELSE [err |-> NoErr, r |-> [r1 EXCEPT !.body = StrPtr(m.s)]]
        ELSE [err |-> Err("nointerface", fieldName), r |-> r1]

writeRequestPathFirstOnly(req, fieldName, fieldValue, canInterface, isRequired, urlEncode) ==
    LET convertedValue    == convertBaseValueToString(fieldValue, canInterface, urlEncode)
        path              == req.url.path
        replaceableString == <<"{">> \o fieldName \o <<"}">>
        first             == CHOOSE i \in 1..(Len(path) + 1) :
                                /\ MatchAt(path, i, replaceableString)
                                /\ \A j \in 1..(i - 1) : ~MatchAt(path, j, replaceableString)
    IN  IF isRequired /\ (convertedValue.nil \/ convertedValue.s = <<>>)
        THEN [err |-> Err("required", fieldName), r |-> req]
        ELSE IF ~Contains(path, replaceableString)
        THEN [err |-> Err("nopathvar", fieldName), r |-> req]
        ELSE [err |-> NoErr,
              r   |-> [req EXCEPT !.url.path =
                         SubSeq(path, 1, first - 1)
                         \o (IF convertedValue.nil THEN <<>> ELSE convertedValue.s)
                         \o SubSeq(path, first + Len(replaceableString), Len(path))]]

writeRequestPath(req, fieldName, fieldValue, canInterface, isRequired, urlEncode) ==
    LET convertedValue    == convertBaseValueToString(fieldValue, canInterface, urlEncode)
        path              == req.url.path
        replaceableString == <<"{">> \o fieldName \o <<"}">>
    IN  IF isRequired /\ (convertedValue.nil \/ convertedValue.s = <<>>)
        THEN [err |-> Err("required", fieldName), r |-> req]
        ELSE IF ~Contains(path, replaceableString)
        THEN [err |-> Err("nopathvar", fieldName), r |-> req]
        ELSE [err |-> NoErr,
              r   |-> [req EXCEPT !.url.path =
                         ReplaceAll(path, replaceableString,
                                    IF convertedValue.nil THEN <<>> ELSE convertedValue.s)]]

Cookie == <<"c", "o", "o", "k", "i", "e">>

Header == <<"h", "e", "a", "d", "e", "r">>

Query == <<"q", "u", "e", "r", "y">>

Path == <<"p", "a", "t", "h">>

Form == <<"f", "o", "r", "m">>

Bang == <<"!">>

\* returnClientOperationByTagValue: the name of the writer, "nil" for none
returnClientOperationByTagValue(tagName) ==
    CASE tagName \in {Cookie, Cookie \o Bang} -> "writeRequestCookie"
      [] tagName \in {Header, Header \o Bang} -> "writeRequestHeader"
      [] tagName \in {Query, Query \o Bang}   -> "writeRequestQueryParam"
      [] tagName \in {Path, Path \o Bang}     -> "writeRequestPath"
      [] OTHER                                -> "nil"

\* operation(r, fieldName, fieldVal, isRequired, urlEncode)
ApplyOperation(operation, req, fieldName, fieldValue, canInterface, isRequired, urlEncode) ==
    CASE operation = "writeRequestCookie" ->
            writeRequestCookie(req, fieldName, fieldValue, canInterface, isRequired, urlEncode)
      [] operation = "writeRequestHeader" ->
            writeRequestHeader(req, fieldName, fieldValue, canInterface, isRequired, urlEncode)
      [] operation = "writeRequestQueryParam" ->
            writeRequestQueryParam(req, fieldName, fieldValue, canInterface, isRequired, urlEncode)
      [] operation = "writeRequestPath" ->
            writeRequestPath(req, fieldName, fieldValue, canInterface, isRequired, urlEncode)

-----------------------------------------------------------------------------
(* Request Generator and Field Assigner, one step per field *)

\* url.Parse fails on a % that does not start a %XX escape.
IsHex(c) ==
    \/ \E i \in DOMAIN Digits : c = Digits[i]
    \/ c \in {"a", "b", "c", "d", "e", "f", "A", "B", "C", "D", "E", "F"}

BadEscape(s) ==
    \E i \in DOMAIN s :
        /\ s[i] = "%"
        /\ ~(i + 2 <= Len(s) /\ IsHex(s[i + 1]) /\ IsHex(s[i + 2]))

\* url.Parse of scheme://host/path: [err, url].  The path templates of the
\* model hold no query, no fragment and no valid %XX escape.
ParseURL(joinedStr) ==
    LET sep   == <<":", "/", "/">>
        start == IF Contains(joinedStr, sep)
                 THEN 3 + CHOOSE i \in 1..Len(joinedStr) :
                            /\ MatchAt(joinedStr, i, sep)
                            /\ \A j \in 1..(i - 1) : ~MatchAt(joinedStr, j, sep)
                 ELSE 1
        rest  == SubSeq(joinedStr, start, Len(joinedStr))
        host  == FirstSegment(rest, "/")
    IN  [err |-> BadEscape(joinedStr),
         url |-> [host  |-> SubSeq(joinedStr, 1, start - 1) \o host,
                  path  |-> SubSeq(rest, Len(host) + 1, Len(rest)),
                  query |-> EmptyValues]]

\* One invocation of assignRequest: the struct's fields, the loop index, whether
\* the struct value is addressable, whether it was reached through an
\* unexported non-embedded field (reflect's sticky read-only flag), and whether
\* the invocation is still in its loop or is returning genErr.
Frame(fields, addr, ro) ==
    [fields |-> fields, i |-> 1, addr |-> addr, ro |-> ro, st |-> "loop"]

top == stack[Len(stack)]

SetTop(frame) == [stack EXCEPT ![Len(stack)] = frame]

InLoop == pc = "assign" /\ top.st = "loop" /\ top.i <= Len(top.fields)

fieldDesc == top.fields[top.i]

\* fieldVal after the pointer traversal of lines 311-315
fieldVal == IF fieldDesc.val.k = "Ptr" THEN Deref(fieldDesc.val) ELSE fieldDesc.val

fieldRO == top.ro \/ ~fieldDesc.exported

fieldCanInterface == ~fieldRO

fieldCanSet == (top.addr \/ fieldVal # fieldDesc.val) /\ ~fieldRO

clientTag == readClientTag(fieldDesc)

fieldName == wireName(fieldDesc.name, clientTag.alias, clientTag.jsonAlias)

ShouldRecurse ==
    /\ clientTag.requestPart = <<>>
    /\ \/ fieldDesc.val.k = "Struct"
       \/ fieldDesc.anonymous /\ fieldCanSet

\* The caller's frame once the assignRequest it invoked at line 323 has
\* returned err: the caller returns that result itself.
afterRecursion(frame, err) == [frame EXCEPT !.st = "ret"]

Return(err) ==
    /\ genErr' = err
    /\ stack' = SetTop([top EXCEPT !.st = "ret"])

Advance ==
    /\ genErr' = genErr
    /\ stack' = SetTop([top EXCEPT !.i = @ + 1])

\* GenerateClientRequest up to the call of assignRequest (lines 129-195)
GenerateClientRequest ==
    /\ pc = "start"
    /\ LET sr        == serviceRequest
           joinedStr == TrimRight(baseUrl, "/") \o <<"/">> \o TrimLeft(sr.info.path, "/")
           u         == ParseURL(joinedStr)
           body      == MarshalValue(sr.val)
           fail(e)   == /\ pc' = "generated"
                        /\ genErr' = e
                        /\ UNCHANGED <<r, stack>>
       IN  IF sr.isNil THEN fail(Err("nilclient", <<>>))
           ELSE IF /\ "Validator" \in sr.caps
                   /\ "SkipClientValidation" \notin sr.caps
                   /\ sr.validateErr
           THEN fail(Err("validation", <<>>))
           ELSE IF u.err THEN fail(Err("url", joinedStr))
           ELSE IF "Requester" \in sr.caps
           THEN IF sr.requesterErr THEN fail(Err("requester", joinedStr))
                ELSE /\ r' = [NewRequest(<<>>, NoRequest.url, NilStr) EXCEPT
                                 !.url = u.url, !.method = sr.info.method]
                     /\ pc' = "generated"
                     /\ UNCHANGED <<genErr, stack>>
           ELSE IF sr.val.k # "Struct" THEN fail(Err("nonstruct", <<>>))
           ELSE IF "jsonBody" \in sr.caps /\ body.err
           THEN fail(Err("marshal", sr.info.name))
           ELSE /\ r' = NewRequest(sr.info.method, u.url,
                                   IF "jsonBody" \in sr.caps THEN StrPtr(body.s)
                                   ELSE NilStr)
                /\ stack' = <<Frame(sr.val.fields, sr.isPtr, FALSE)>>
                /\ pc' = "assign"
                /\ genErr' = genErr
    /\ UNCHANGED <<serviceRequest, baseUrl, calls, unitVars, execVars, logVars>>

\* lines 321-323: the field is an untagged nested or embedded record
AssignRecurse ==
    /\ InLoop
    /\ ShouldRecurse
    /\ IF fieldVal.k # "Struct"
       THEN Return(Err("notstruct", fieldDesc.name))
       ELSE /\ stack' = Append(stack,
                   Frame(fieldVal.fields,
                         top.addr \/ fieldVal # fieldDesc.val,
                         top.ro \/ (~fieldDesc.exported /\ ~fieldDesc.anonymous)))
            /\ genErr' = genErr
    /\ UNCHANGED <<serviceRequest, baseUrl, pc, r, calls, unitVars, execVars, logVars>>

\* lines 324-338: a form field is written as the body
AssignForm ==
    /\ InLoop
    /\ ~ShouldRecurse
    /\ clientTag.requestPart = Form
    /\ LET res == writeRequestBody(r, fieldName, fieldVal, fieldCanInterface)
       IN  /\ r' = res.r
           /\ calls' = Append(calls, [op |-> Form, name |-> fieldName, val |-> fieldVal,
                                      before |-> r, err |-> res.err])
           /\ IF res.err # NoErr THEN Return(res.err) ELSE Advance
    /\ UNCHANGED <<serviceRequest, baseUrl, pc, unitVars, execVars, logVars>>

\* lines 339-358: a field with any other placement tag goes to its writer
AssignOperation ==
    /\ InLoop
    /\ ~ShouldRecurse
    /\ clientTag.requestPart \notin {<<>>, Form}
    /\ LET operation == returnClientOperationByTagValue(clientTag.requestPart)
           res == ApplyOperation(operation, r, fieldName, fieldVal, fieldCanInterface,
                                 HasSuffix(clientTag.requestPart, Bang),
                                 ParseBool(clientTag.encode))
       IN  IF operation = "nil"
           THEN /\ Return(Err("unknownop", clientTag.requestPart))
                /\ UNCHANGED <<r, calls>>
           ELSE /\ r' = res.r
                /\ calls' = Append(calls, [op |-> clientTag.requestPart, name |-> fieldName,
                                           val |-> fieldVal, before |-> r, err |-> res.err])
                /\ IF res.err # NoErr THEN Return(res.err) ELSE Advance
    /\ UNCHANGED <<serviceRequest, baseUrl, pc, unitVars, execVars, logVars>>

\* lines 359-361: an untagged field that is no record is skipped
AssignContinue ==
    /\ InLoop
    /\ ~ShouldRecurse
    /\ clientTag.requestPart = <<>>
    /\ Advance
    /\ UNCHANGED <<serviceRequest, baseUrl, pc, r, calls, unitVars, execVars, logVars>>

\* line 364: the loop is over, the invocation returns nil
AssignLoopEnd ==
    /\ pc = "assign"
    /\ top.st = "loop"
    /\ top.i > Len(top.fields)
    /\ Return(NoErr)
    /\ UNCHANGED <<serviceRequest, baseUrl, pc, r, calls, unitVars, execVars, logVars>>

\* An invocation returns genErr: to the invocation that called it at line 323,
\* or to GenerateClientRequest (lines 195-200).
AssignReturn ==
    /\ pc = "assign"
    /\ top.st = "ret"
    /\ IF Len(stack) = 1
       THEN /\ stack' = <<>>
            /\ pc' = "generated"
       ELSE /\ stack' = [SubSeq(stack, 1, Len(stack) - 1) EXCEPT
                            ![Len(stack) - 1] = afterRecursion(@, genErr)]
            /\ pc' = pc
    /\ UNCHANGED <<serviceRequest, baseUrl, r, genErr, calls, unitVars, execVars, logVars>>

\* DoRequest, lines 209-212: the generation error is returned
DoRequestFail ==
    /\ pc = "generated"
    /\ genErr # NoErr
    /\ pc' = "returned"
    /\ UNCHANGED <<serviceRequest, baseUrl, r, stack, genErr, calls, unitVars, execVars, logVars>>

\* DoRequest, line 214: DoGeneratedRequest is called and reaches client.Do(r)
DoRequestSend ==
    /\ pc = "generated"
    /\ genErr = NoErr
    /\ pc' = "sent"
    /\ UNCHANGED <<serviceRequest, baseUrl, r, stack, genErr, calls, unitVars, execVars, logVars>>

-----------------------------------------------------------------------------
(* The request records the generator is run on *)

\* Longest top-level record, and longest nested record.
MaxFields == 2

MaxInner == 1

SeqUpTo(S, n) == UNION {[1..k -> S] : k \in 0..n}

Field(name, tags, val) ==
    [name |-> name, anonymous |-> FALSE, exported |-> TRUE,
     tags |-> tags, swag |-> NoSwag, val |-> val]

Tagged(part) == [NoTags EXCEPT !.request = Tag(part)]

N == <<"n">>

M == <<"m">>

V == StringV(<<"v">>)

W == StringV(<<"w">>)

\* A required field of each writer whose value is absent or empty.
UnsetRequiredLeaves ==
    {Field(N, Tagged(op \o Bang), v) :
        op \in {Cookie, Header, Query, Path}, v \in {NilPtr, StringV(<<>>)}}

\* Fields every writer accepts (the path template holds {n} and not {m}).
PlacedLeaves ==
    {Field(N, Tagged(Cookie \o Bang), V), Field(M, Tagged(Header), V),
     Field(M, Tagged(Query), PtrTo(V)), Field(N, Tagged(Path), V),
     Field(M, [Tagged(Header) EXCEPT !.alias = Tag(ContentType)], W)}

BodyLeaves ==
    {Field(N, Tagged(Form), V), Field(M, Tagged(Form), W),
     Field(N, Tagged(Form), ChanV),
     [Field(N, Tagged(Form), V) EXCEPT !.exported = FALSE]}

OtherLeaves ==
    {Field(M, Tagged(Path), V), Field(N, Tagged(<<"b", "o", "g", "u", "s">>), V),
     Field(M, NoTags, V), Field(M, NoTags, PtrTo(StructV(<<Field(N, Tagged(Header), V)>>)))}

TopLeaves == UnsetRequiredLeaves \cup PlacedLeaves \cup BodyLeaves \cup OtherLeaves

InnerLeaves ==
    {Field(N, Tagged(Cookie \o Bang), NilPtr), Field(M, Tagged(Header), V),
     Field(M, Tagged(Form), W)}

\* Untagged fields holding a record: a named struct, exported or not, an
\* embedded struct, an embedded pointer to a struct, and an embedded nil pointer.
NestedFields(innerLeaves) ==
    LET inner == SeqUpTo(innerLeaves, MaxInner)
    IN  {Field(<<"s">>, NoTags, StructV(fs)) : fs \in inner}
        \cup {[Field(<<"u">>, NoTags, StructV(fs)) EXCEPT !.exported = FALSE] : fs \in inner}
        \cup {[Field(<<"E">>, NoTags, StructV(fs)) EXCEPT !.anonymous = TRUE] : fs \in inner}
        \cup {[Field(<<"P">>, NoTags, PtrTo(StructV(fs))) EXCEPT !.anonymous = TRUE] :
                 fs \in inner}
        \cup {[Field(<<"P">>, NoTags, NilPtr) EXCEPT !.anonymous = TRUE]}

Info == [path |-> <<"/", "i", "/", "{", "n", "}">>, method |-> <<"GET">>, name |-> <<"R">>]

Request(val, isPtr, caps) ==
    [isNil |-> FALSE, isPtr |-> isPtr, caps |-> caps, validateErr |-> FALSE,
     requesterErr |-> FALSE, info |-> Info, val |-> val]

\* Records that reach the Field Assigner, with and without the whole-body
\* JSON marker, passed by value and by pointer.
WalkedRequests(topLeaves, innerLeaves) ==
    {Request(StructV(fs), isPtr, caps) :
        fs \in SeqUpTo(topLeaves \cup NestedFields(innerLeaves), MaxFields),
        isPtr \in BOOLEAN, caps \in {{}, {"jsonBody"}}}

\* Requests GenerateClientRequest settles before any field is looked at.
SettledRequests ==
    LET base == Request(StructV(<<Field(N, Tagged(Cookie \o Bang), NilPtr)>>), TRUE, {})
    IN  {[base EXCEPT !.isNil = TRUE],
         [base EXCEPT !.caps = {"Validator"}, !.validateErr = TRUE],
         [base EXCEPT !.caps = {"Validator"}],
         [base EXCEPT !.caps = {"Validator", "SkipClientValidation"}, !.validateErr = TRUE],
         [base EXCEPT !.caps = {"Requester"}],
         [base EXCEPT !.caps = {"Requester"}, !.requesterErr = TRUE],
         [base EXCEPT !.info.path = <<"/", "%", "z">>],
         [base EXCEPT !.val = V],
         [base EXCEPT !.caps = {"jsonBody"}, !.val = StructV(<<Field(N, NoTags, ChanV)>>)]}

BaseUrls == {<<"h", ":", "/", "/", "a">>, <<"h", ":", "/", "/", "a", "/">>}

-----------------------------------------------------------------------------
(* Initial values of the parts a specification does not use *)

UnitIdle == unitIn = <<>> /\ unitOut = [done |-> FALSE]

GenIdle ==
    /\ serviceRequest = <<>>
    /\ baseUrl = <<>>
    /\ pc = "idle"
    /\ r = NoRequest
    /\ stack = <<>>
    /\ genErr = NoErr
    /\ calls = <<>>

ExecIdle ==
    /\ defaultClient = <<>>
    /\ exec = [pc |-> "off"]
    /\ target = <<>>
    /\ netLog = <<>>
    /\ nCalls = 0

LogIdle ==
    /\ heap = <<>>
    /\ lvalues = 0
    /\ lock = 0
    /\ gpc = <<>>
    /\ gloc = <<>>
    /\ history = <<>>
    /\ returned = <<>>

-----------------------------------------------------------------------------
(* Specification of DoRequest: one call on a request record *)

InitGenOn(requests) ==
    /\ serviceRequest \in requests
    /\ baseUrl \in BaseUrls
    /\ pc = "start"
    /\ r = NoRequest
    /\ stack = <<>>
    /\ genErr = NoErr
    /\ calls = <<>>
    /\ UnitIdle /\ ExecIdle /\ LogIdle

InitGen == InitGenOn(WalkedRequests(TopLeaves, InnerLeaves) \cup SettledRequests)

NextGen ==
    \/ GenerateClientRequest
    \/ AssignRecurse
    \/ AssignForm
    \/ AssignOperation
    \/ AssignContinue
    \/ AssignLoopEnd
    \/ AssignReturn
    \/ DoRequestFail
    \/ DoRequestSend

SpecGen == InitGen /\ [][NextGen]_vars

\* The same call on records chosen to exercise the body slot.
BodyTopLeaves ==
    BodyLeaves \cup
    {Field(M, Tagged(Header), V), Field(M, NoTags, V),
     Field(M, [Tagged(Header) EXCEPT !.alias = Tag(ContentType)], W)}

BodyInnerLeaves == {Field(M, Tagged(Form), W)}

InitBody == InitGenOn(WalkedRequests(BodyTopLeaves, BodyInnerLeaves) \cup SettledRequests)

SpecBody == InitBody /\ [][NextGen]_vars

-----------------------------------------------------------------------------
(* Claims about request generation *)

Last(seq) == seq[Len(seq)]

\* The record goes through the Field Assigner: it is a struct that builds no
\* transport request of its own.
Walked ==
    /\ ~serviceRequest.isNil
    /\ "Requester" \notin serviceRequest.caps
    /\ serviceRequest.val.k = "Struct"

Generated == pc \in {"generated", "returned", "sent"}

RequiredParts == {Cookie \o Bang, Header \o Bang, Query \o Bang, Path \o Bang}

\* An untagged field holding a record the walk is to descend into.
IsNestedRecord(f, addr, ro) ==
    LET fv == IF f.val.k = "Ptr" THEN Deref(f.val) ELSE f.val
    IN  /\ readClientTag(f).requestPart = <<>>
        /\ fv.k = "Struct"
        /\ \/ f.val.k = "Struct"
           \/ f.anonymous /\ (addr \/ fv # f.val) /\ ~(ro \/ ~f.exported)

RECURSIVE HasUnsetRequired(_, _, _)
\* Some field of the record, at any depth, is required and its value is absent
\* or converts to the empty string.
HasUnsetRequired(fields, addr, ro) ==
    \E i \in DOMAIN fields :
        LET f  == fields[i]
            fv == IF f.val.k = "Ptr" THEN Deref(f.val) ELSE f.val
            c  == convertBaseValueToString(fv, ~(ro \/ ~f.exported), FALSE)
        IN  \/ /\ readClientTag(f).requestPart \in RequiredParts
               /\ c.nil \/ c.s = <<>>
            \/ /\ IsNestedRecord(f, addr, ro)
               /\ HasUnsetRequired(fv.fields, addr \/ fv # f.val,
                                   ro \/ (~f.exported /\ ~f.anonymous))

RECURSIVE PlacedFields(_, _, _)
\* The fields carrying a placement tag, in declaration order, nested records
\* expanded in place: <<part, wire name>> each.
PlacedFields(fields, addr, ro) ==
    IF Len(fields) = 0 THEN <<>>
    ELSE
      LET f  == fields[1]
          fv == IF f.val.k = "Ptr" THEN Deref(f.val) ELSE f.val
          t  == readClientTag(f)
          here == IF t.requestPart # <<>>
                  THEN <<[op |-> t.requestPart,
                          name |-> wireName(f.name, t.alias, t.jsonAlias)]>>
                  ELSE IF IsNestedRecord(f, addr, ro)
                  THEN PlacedFields(fv.fields, addr \/ fv # f.val,
                                    ro \/ (~f.exported /\ ~f.anonymous))
                  ELSE <<>>
      IN  here \o PlacedFields(Tail(fields), addr, ro)

WriterLog == [i \in DOMAIN calls |-> [op |-> calls[i].op, name |-> calls[i].name]]

FormCalls == SelectSeq(calls, LAMBDA c : c.op = Form)

\* C1: a record with a required cookie!/header!/query!/path! field, at any
\* position or depth, whose value is absent or empty: GenerateClientRequest
\* returns an error (the required-not-set error, or that of a field that
\* failed before it) and DoRequest never reaches client.Do.
C1_RequiredAbortsBeforeNetwork ==
    (Walked /\ HasUnsetRequired(serviceRequest.val.fields, serviceRequest.isPtr, FALSE))
        => /\ pc # "sent"
           /\ Generated => genErr # NoErr

\* C2: when assignRequest returns without error, every field carrying a
\* placement tag had its writer invoked exactly once, in declaration order,
\* fields declared after a nested or embedded record included.
C2_EveryPlacedFieldWritten ==
    (Walked /\ Generated /\ genErr = NoErr)
        => WriterLog = PlacedFields(serviceRequest.val.fields, serviceRequest.isPtr, FALSE)

\* C3: for a record with the whole-body JSON marker, the generated request's
\* body is the JSON encoding of the whole record and its Content-Type is
\* application/json, whatever tags its fields carry.
C3_JsonBodyIsWholeRecord ==
    (Walked /\ Generated /\ genErr = NoErr /\ "jsonBody" \in serviceRequest.caps)
        => /\ r.body = StrPtr(MarshalValue(serviceRequest.val).s)
           /\ HeaderGet(r.header, ContentType) = ApplicationJson

\* C5: once form fields have been written without error, the body is the JSON
\* encoding of the last of them alone and Content-Type is application/json.
C5_BodyLastWriteWins ==
    (FormCalls # <<>> /\ \A i \in DOMAIN FormCalls : FormCalls[i].err = NoErr)
        => /\ r.body = StrPtr(MarshalValue(Last(FormCalls).val).s)
           /\ HeaderGet(r.header, ContentType) = ApplicationJson

\* Two form fields with different encodings were written and the request sent.
C5_Witness ==
    /\ pc = "sent"
    /\ Len(FormCalls) = 2
    /\ MarshalValue(FormCalls[1].val).s # MarshalValue(FormCalls[2].val).s
    /\ r.body = StrPtr(MarshalValue(FormCalls[2].val).s)

\* C9: a writer that returns an error leaves the request exactly as it was
\* before the writer was invoked.
C9_FailedWriteLeavesRequest ==
    (calls # <<>> /\ Last(calls).err # NoErr) => r = Last(calls).before

-----------------------------------------------------------------------------
(* Specification of writeRequestPath: one application to a drawn request *)

\* Longest URL path the path writer is applied to.
MaxPathLen == 6

PathChars == {"{", "n", "}", "/"}

PathValues == {NilPtr, StringV(<<>>), StringV(<<"v", "{", "n", "}">>)}

InitPath ==
    /\ unitIn \in
         [r          : {[NewRequest(<<"GET">>, NoRequest.url, NilStr) EXCEPT !.url.path = p] :
                           p \in SeqUpTo(PathChars, MaxPathLen)},
          fieldName  : {N},
          fieldValue : PathValues,
          isRequired : BOOLEAN,
          urlEncode  : BOOLEAN]
    /\ unitOut = [done |-> FALSE]
    /\ GenIdle /\ ExecIdle /\ LogIdle

\* operation(r, fieldName, fieldVal, isRequired, urlEncode) for a path field
ApplyWritePath ==
    /\ ~unitOut.done
    /\ LET res == writeRequestPath(unitIn.r, unitIn.fieldName, unitIn.fieldValue, TRUE,
                                   unitIn.isRequired, unitIn.urlEncode)
       IN  unitOut' = [done |-> TRUE, err |-> res.err, r |-> res.r]
    /\ UNCHANGED <<unitIn, genVars, execVars, logVars>>

NextPath == ApplyWritePath

SpecPath == InitPath /\ [][NextPath]_vars

RECURSIVE SplitOn(_, _)
\* The pieces of s between the occurrences of sep, taken from the left.
SplitOn(s, sep) ==
    IF ~Contains(s, sep) THEN <<s>>
    ELSE LET i == CHOOSE i \in 1..Len(s) :
                    /\ MatchAt(s, i, sep)
                    /\ \A j \in 1..(i - 1) : ~MatchAt(s, j, sep)
         IN  <<SubSeq(s, 1, i - 1)>> \o SplitOn(SubSeq(s, i + Len(sep), Len(s)), sep)

\* C4: a path field named n.  Without the placeholder {n} in the URL path the
\* writer returns an error and leaves the path alone, whatever the required
\* flag and the value.  With it (the field not being required and empty) every
\* occurrence of {n} is replaced by the converted value, by nothing when the
\* value is absent, and the rest of the path and of the request is unchanged.
C4_PathPlaceholder ==
    unitOut.done =>
        LET path   == unitIn.r.url.path
            holder == <<"{">> \o unitIn.fieldName \o <<"}">>
            c      == convertBaseValueToString(unitIn.fieldValue, TRUE, unitIn.urlEncode)
            unset  == c.nil \/ c.s = <<>>
        IN  /\ ~Contains(path, holder) =>
                  unitOut.err # NoErr /\ unitOut.r = unitIn.r
            /\ (Contains(path, holder) /\ ~(unitIn.isRequired /\ unset)) =>
                  /\ unitOut.err = NoErr
                  /\ unitOut.r.url.path =
                        Join(SplitOn(path, holder), IF c.nil THEN <<>> ELSE c.s)
                  /\ unitOut.r = [unitIn.r EXCEPT !.url.path = unitOut.r.url.path]

\* The placeholder occurred twice and both occurrences took the value.
C4_Witness ==
    /\ unitOut.done
    /\ unitOut.err = NoErr
    /\ unitIn.r.url.path = <<"{", "n", "}", "{", "n", "}">>
    /\ unitIn.fieldValue = StringV(<<"v", "{", "n", "}">>)
    /\ ~unitIn.urlEncode
    /\ unitOut.r.url.path = <<"v", "{", "n", "}", "v", "{", "n", "}">>

-----------------------------------------------------------------------------
(* Specification of the Tag Resolver: one field resolved and written *)

\* Longest json tag.
MaxTagLen == 3

TagChars == {"-", ",", "j"}

SchemaTagged == [ok |-> TRUE, requestPart |-> Query, alias |-> <<>>, jsonAlias |-> <<"q">>]

InitTag ==
    /\ unitIn \in
         {[Field(<<"F">>, [NoTags EXCEPT !.request = Tag(part), !.alias = alias,
                                         !.json = json], V)
              EXCEPT !.swag = swag] :
            part \in {Query, Header \o Bang},
            alias \in {NoTag, Tag(<<>>), Tag(<<"a">>)},
            json \in {NoTag} \cup {Tag(t) : t \in SeqUpTo(TagChars, MaxTagLen)},
            swag \in {NoSwag, SchemaTagged}}
    /\ unitOut = [done |-> FALSE]
    /\ GenIdle /\ ExecIdle /\ LogIdle

\* assignRequest's treatment of one tagged field (lines 317, 339-358): the tag
\* is resolved, the wire name chosen and the writer invoked.
ApplyResolve ==
    /\ ~unitOut.done
    /\ LET t    == readClientTag(unitIn)
           name == wireName(unitIn.name, t.alias, t.jsonAlias)
           res  == ApplyOperation(returnClientOperationByTagValue(t.requestPart),
                                  NewRequest(<<"GET">>, NoRequest.url, NilStr), name,
                                  unitIn.val, TRUE, HasSuffix(t.requestPart, Bang),
                                  ParseBool(t.encode))
       IN  unitOut' = [done |-> TRUE, part |-> t.requestPart, fieldName |-> name,
                       err |-> res.err, r |-> res.r]
    /\ UNCHANGED <<unitIn, genVars, execVars, logVars>>

NextTag == ApplyResolve

SpecTag == InitTag /\ [][NextTag]_vars

\* The name the resolved field was written under: the key of the one query
\* value or header line of the request.
WrittenUnder(name) ==
    IF unitOut.part = Query
    THEN DOMAIN unitOut.r.url.query = {name}
    ELSE DOMAIN unitOut.r.header = {CanonicalMIMEHeaderKey(name)}

\* The field takes its placement from its request, alias and json tags.
TagResolved == unitOut.done /\ ~unitIn.swag.ok

\* C10 as stated: the wire name is the alias tag if non-empty, else the first
\* comma-delimited segment of the json tag, else the field identifier; a json
\* tag of exactly - or -, gives no serialization alias.
C10_WireNameAsStated ==
    TagResolved =>
        LET alias == unitIn.tags.alias
            json  == unitIn.tags.json
            seg   == FirstSegment(json.v, ",")
            name  == IF alias.ok /\ alias.v # <<>> THEN alias.v
                     ELSE IF json.ok /\ json.v \notin {<<"-">>, <<"-", ",">>} /\ seg # <<>>
                     THEN seg
                     ELSE unitIn.name
        IN  unitOut.fieldName = name /\ WrittenUnder(name)

\* C10 amended: the wire name is the alias tag if non-empty, else the
\* serialization alias if there is one, else the field identifier; the
\* serialization alias is the first comma-delimited segment of the json tag,
\* none when that segment is -, except that the tag -, gives the alias "-".
C10_WireNamePriority ==
    TagResolved =>
        LET alias == unitIn.tags.alias
            json  == unitIn.tags.json
            seg   == FirstSegment(json.v, ",")
            name  == IF alias.ok /\ alias.v # <<>> THEN alias.v
                     ELSE IF json.ok /\ json.v = <<"-", ",">> THEN <<"-">>
                     ELSE IF json.ok /\ seg \notin {<<>>, <<"-">>} THEN seg
                     ELSE unitIn.name
        IN  unitOut.fieldName = name /\ WrittenUnder(name)

\* A field tagged json:"-," without an alias was written under "-".
C10_Witness ==
    /\ TagResolved
    /\ unitIn.tags.json = Tag(<<"-", ",">>)
    /\ ~unitIn.tags.alias.ok
    /\ unitOut.err = NoErr
    /\ unitOut.fieldName = <<"-">>
    /\ WrittenUnder(<<"-">>)

-----------------------------------------------------------------------------
(* Request Executor: DoGeneratedRequest, called any number of times *)

\* Calls of DoGeneratedRequest in one run.
MaxCalls == 3

StatusOK == 200

\* http.StatusText
StatusText(code) ==
    CASE code = StatusOK       -> <<"OK">>
      [] code = 404      -> <<"Not Found">>
      [] OTHER                 -> <<>>

\* The transport http.DefaultClient starts with (its Transport field is nil).
DefaultTransport == [kind |-> "default", cfg |-> "none"]

\* &http2.Transport{TLSClientConfig: cfg}
Http2Transport(cfg) == [kind |-> "http2", cfg |-> cfg]

RECURSIVE Sprintf(_, _)
\* fmt.Sprintf for a format whose only verb is %s (written as one symbol): each
\* verb takes the next argument, arguments left over are reported behind the text.
Sprintf(format, args) ==
    IF Len(format) = 0
    THEN IF Len(args) = 0 THEN <<>> ELSE <<"%!(EXTRA ">> \o Join(args, <<", ">>) \o <<")">>
    ELSE IF format[1] = "%s"
         THEN (IF Len(args) = 0 THEN <<"%!s(MISSING)">> ELSE args[1])
              \o Sprintf(Tail(format), IF Len(args) = 0 THEN args ELSE Tail(args))
         ELSE <<format[1]>> \o Sprintf(Tail(format), args)

NoResult == [kind |-> "none", code |-> 0, msg |-> <<>>]

NilResult == [kind |-> "nil", code |-> 0, msg |-> <<>>]

ErrorResult(msg) == [kind |-> "error", code |-> 0, msg |-> msg]

\* ErrorResponse.NewError on a fresh struct{ response.ErrorResponse }: the value
\* DoGeneratedRequest returns as error; StatusCode() is code, Error() is msg.
ErrorCarrier(code, format, args) ==
    [kind |-> "carrier", code |-> code, msg |-> Sprintf(format, args)]

\* The variadic tlsConfig arguments of a call: none, one, or two.
TlsArgs == {<<>>, <<"A">>, <<"B", "A">>}

Capabilities == {"CodedResponse", "CaptureReader", "ErredResponse", "Unmarshaler"}

\* responseObj: a *ResponseType, possibly nil, and what its type implements.
\* CodedResponse and ErredResponse are implemented by embedding
\* response.BasicResponse / response.ErrorResponse.
Targets ==
    [isNil : BOOLEAN, caps : SUBSET Capabilities, code : {0}, errString : {<<>>},
     captured : {FALSE}, decoded : {"no"}]

\* What the server may answer.
Responses == [status : {StatusOK, 404}, body : {<<"{}">>, <<"oops">>}]

ExecOff == [pc |-> "idle"]

InitExec ==
    /\ defaultClient = [transport |-> DefaultTransport]
    /\ exec = ExecOff
    /\ target = <<>>
    /\ netLog = <<>>
    /\ nCalls = 0
    /\ GenIdle /\ UnitIdle /\ LogIdle

\* lines 220-224: the client is http.DefaultClient itself; a tlsConfig argument
\* sets the transport on it
clientAfterConfig(client, tlsConfig) ==
    IF Len(tlsConfig) > 0
    THEN [client EXCEPT !.transport = Http2Transport(tlsConfig[1])]
    ELSE client

ExecCall(tlsConfig, responseObj) ==
    /\ exec.pc = "idle"
    /\ nCalls < MaxCalls
    /\ nCalls' = nCalls + 1
    /\ defaultClient' = clientAfterConfig(defaultClient, tlsConfig)
    /\ target' = responseObj
    /\ exec' = [pc |-> "do", tlsConfig |-> tlsConfig, resp |-> <<>>, events |-> <<>>,
                bodyRead |-> FALSE, bodyClosed |-> FALSE, readFailed |-> FALSE,
                result |-> NoResult]
    /\ UNCHANGED <<netLog, genVars, unitVars, logVars>>

\* lines 226-229: client.Do(r) on the client's transport fails
ExecDoFails ==
    /\ exec.pc = "do"
    /\ netLog' = Append(netLog, [supplied |-> exec.tlsConfig,
                                 transport |-> defaultClient.transport])
    /\ exec' = [exec EXCEPT !.pc = "returned", !.result = ErrorResult(<<"transport">>)]
    /\ UNCHANGED <<defaultClient, target, nCalls, genVars, unitVars, logVars>>

\* lines 226-235: client.Do(r) answers; a status-code receiver gets the status
ExecDo(resp) ==
    /\ exec.pc = "do"
    /\ netLog' = Append(netLog, [supplied |-> exec.tlsConfig,
                                 transport |-> defaultClient.transport])
    /\ IF "CodedResponse" \in target.caps
       THEN IF target.isNil
            THEN /\ exec' = [exec EXCEPT !.pc = "panicked", !.resp = resp,
                                         !.events = Append(@, "NewCode")]
                 /\ target' = target
            ELSE /\ exec' = [exec EXCEPT !.pc = "coded", !.resp = resp,
                                         !.events = Append(@, "NewCode")]
                 /\ target' = [target EXCEPT !.code = resp.status]
       ELSE /\ exec' = [exec EXCEPT !.pc = "coded", !.resp = resp]
            /\ target' = target
    /\ UNCHANGED <<defaultClient, nCalls, genVars, unitVars, logVars>>

\* lines 237-244: a raw-body capture receiver is handed resp.Body
ExecCapture(captureErr) ==
    /\ exec.pc = "coded"
    /\ "CaptureReader" \in target.caps
    /\ target' = [target EXCEPT !.captured = TRUE]
    /\ exec' = [exec EXCEPT !.pc = "returned", !.events = Append(@, "Capture"),
                            !.result = IF captureErr THEN ErrorResult(<<"capture">>)
                                       ELSE NilResult]
    /\ UNCHANGED <<defaultClient, netLog, nCalls, genVars, unitVars, logVars>>

\* lines 246-253: the body is read to its end; it is closed when the call returns
ExecRead(readErr) ==
    /\ exec.pc = "coded"
    /\ "CaptureReader" \notin target.caps
    /\ IF readErr
       THEN exec' = [exec EXCEPT !.pc = "returned", !.readFailed = TRUE,
                                 !.bodyClosed = TRUE,
                                 !.events = @ \o <<"ReadAll", "Close">>,
                                 !.result = ErrorResult(<<"read">>)]
       ELSE exec' = [exec EXCEPT !.pc = "read", !.bodyRead = TRUE,
                                 !.events = Append(@, "ReadAll")]
    /\ UNCHANGED <<defaultClient, target, netLog, nCalls, genVars, unitVars, logVars>>

\* lines 255-267: without a response object only a status other than 200 is an error
ExecNilTarget ==
    /\ exec.pc = "read"
    /\ target.isNil
    /\ exec' = [exec EXCEPT
                  !.pc = "returned", !.bodyClosed = TRUE,
                  !.events = Append(@, "Close"),
                  !.result = IF exec.resp.status # StatusOK
                             THEN ErrorCarrier(exec.resp.status,
                                               StatusText(exec.resp.status),
                                               <<<<"string=body">>, exec.resp.body>>)
                             ELSE NilResult]
    /\ UNCHANGED <<defaultClient, target, netLog, nCalls, genVars, unitVars, logVars>>

\* lines 269-285: the error receiver is filled, then the body is decoded by the
\* target's own UnmarshalJSON or by json.Unmarshal
ExecDecode(customErr) ==
    /\ exec.pc = "read"
    /\ ~target.isNil
    /\ LET erred  == "ErredResponse" \in target.caps /\ exec.resp.status # StatusOK
           custom == "Unmarshaler" \in target.caps
           bad    == IF custom THEN customErr ELSE exec.resp.body # <<"{}">>
       IN  /\ target' = [target EXCEPT
                           !.code = IF erred THEN exec.resp.status ELSE @,
                           !.errString = IF erred
                                         THEN Sprintf(<<"from response: ", "%s">>,
                                                      <<exec.resp.body>>)
                                         ELSE @,
                           !.decoded = IF custom THEN "custom" ELSE "json"]
           /\ exec' = [exec EXCEPT
                         !.pc = "returned", !.bodyClosed = TRUE,
                         !.events = @ \o (IF erred THEN <<"NewError">> ELSE <<>>)
                                      \o <<IF custom THEN "UnmarshalJSON" ELSE "Unmarshal">>
                                      \o <<"Close">>,
                         !.result = IF bad THEN ErrorResult(<<"decode">>) ELSE NilResult]
    /\ UNCHANGED <<defaultClient, netLog, nCalls, genVars, unitVars, logVars>>

\* The call has returned to its caller; the next call may start.
ExecReturn ==
    /\ exec.pc = "returned"
    /\ exec' = ExecOff
    /\ target' = <<>>
    /\ UNCHANGED <<defaultClient, netLog, nCalls, genVars, unitVars, logVars>>

NextExec ==
    \/ \E tlsConfig \in TlsArgs, responseObj \in Targets : ExecCall(tlsConfig, responseObj)
    \/ ExecDoFails
    \/ \E resp \in Responses : ExecDo(resp)
    \/ \E captureErr \in BOOLEAN : ExecCapture(captureErr)
    \/ \E readErr \in BOOLEAN : ExecRead(readErr)
    \/ ExecNilTarget
    \/ \E customErr \in BOOLEAN : ExecDecode(customErr)
    \/ ExecReturn

SpecExec == InitExec /\ [][NextExec]_vars

InCall == exec.pc \notin {"off", "idle"}

\* C6: a call with a nil response target whose transport call succeeded (and
\* whose body could be read) returns an Error Carrier with the response's
\* status and a message holding the status text when the status is not 200,
\* returns nil when it is 200, and never panics or decodes into the target.
C6_NilTargetResult ==
    (InCall /\ target.isNil) =>
        /\ exec.pc # "panicked"
        /\ (exec.pc = "returned" /\ exec.resp # <<>> /\ ~exec.readFailed) =>
              /\ target.decoded = "no"
              /\ IF exec.resp.status = StatusOK THEN exec.result = NilResult
                 ELSE /\ exec.result.kind = "carrier"
                      /\ exec.result.code = exec.resp.status
                      /\ Contains(exec.result.msg, StatusText(exec.resp.status))

\* C7: a call that supplied no transport configuration does its network call
\* on the default transport, whatever calls came before it, and a call that
\* supplied one uses the transport built from it.
C7_DefaultTransportUnlessSupplied ==
    \A i \in DOMAIN netLog :
        netLog[i].transport =
            IF netLog[i].supplied = <<>> THEN DefaultTransport
            ELSE Http2Transport(netLog[i].supplied[1])

\* a is an initial part of b
IsPrefix(a, b) == Len(a) <= Len(b) /\ SubSeq(b, 1, Len(a)) = a

\* What the executor does to a capture target, in order: the status first when
\* the target also receives status codes, then one Capture.
CaptureEvents ==
    (IF "CodedResponse" \in target.caps THEN <<"NewCode">> ELSE <<>>) \o <<"Capture">>

\* C11: once the server has answered a call whose target supports raw-body
\* capture, whatever the status, the executor sets the status first (when the
\* target receives status codes), then calls Capture once and returns: the
\* call is at the capture step or has returned with exactly those steps done,
\* and it has not read or closed the body, filled the error receiver or decoded.
C11_CaptureOwnsBody ==
    (InCall /\ exec.resp # <<>> /\ "CaptureReader" \in target.caps) =>
        /\ IsPrefix(exec.events, CaptureEvents)
        /\ ~exec.bodyRead /\ ~exec.bodyClosed
        /\ target.errString = <<>> /\ target.decoded = "no"
        /\ exec.pc \in {"coded", "returned"}
        /\ exec.pc = "returned" =>
              /\ exec.events = CaptureEvents
              /\ target.captured
              /\ "CodedResponse" \in target.caps => target.code = exec.resp.status

-----------------------------------------------------------------------------
(* Log accumulator: one ExpandedLogging shared by several goroutines *)

\* Goroutines that call Log and GetAll on the same accumulator.
MaxGoroutines == 3

\* Log calls in one run.
MaxLogCalls == 2

\* GetAll calls in one run.
MaxGetAll == 2

Goroutines == 1..MaxGoroutines

\* The nil interface value stored for a key that has no value after it.
NilValue == "nil"

\* The variadic arguments of a Log call: keys and values alternate.
LogValues ==
    {<<"a", "1", "b", "1">>, <<"a", "2", "b", "2">>, <<"a", "3">>, <<"b">>, <<>>}

\* fmt.Sprintf("%s", v) for a key that is a string
FormatKey(v) == v

\* A Go map is a set of <<key, value>> pairs with one pair per key.
MapKeys(m) == {p[1] : p \in m}

MapGet(m, k) == (CHOOSE p \in m : p[1] = k)[2]

\* m[k] = v
MapSet(m, k, v) == {p \in m : p[1] # k} \cup {<<k, v>>}

GIdle == [values |-> <<>>, i |-> 0, result |-> 0, todo |-> {}, seen |-> 0]

InitLog ==
    /\ heap = <<>>
    /\ lvalues = 0
    /\ lock = 0
    /\ gpc = [g \in Goroutines |-> "idle"]
    /\ gloc = [g \in Goroutines |-> GIdle]
    /\ history = <<>>
    /\ returned = <<>>
    /\ GenIdle /\ UnitIdle /\ ExecIdle

\* A Lock that never waits.
LockAlwaysFree == TRUE

\* sync.Mutex: Lock returns only while no goroutine holds the mutex
LockFree == lock = 0

LogsStarted == Len(history) + Cardinality({g \in Goroutines : gpc[g] = "log_lock"})

GetAllsStarted ==
    Len(returned)
    + Cardinality({g \in Goroutines : gpc[g] \in {"get_lock", "get_make", "get_range"}})

\* A goroutine calls l.Log(values...).
LogCall(g, values) ==
    /\ gpc[g] = "idle"
    /\ LogsStarted < MaxLogCalls
    /\ gpc' = [gpc EXCEPT ![g] = "log_lock"]
    /\ gloc' = [gloc EXCEPT ![g] = [GIdle EXCEPT !.values = values, !.i = 1]]
    /\ UNCHANGED <<heap, lvalues, lock, history, returned, genVars, unitVars, execVars>>

\* line 74: l.lock.Lock()
LogLock(g) ==
    /\ gpc[g] = "log_lock"
    /\ LockFree
    /\ lock' = g
    /\ history' = Append(history, gloc[g].values)
    /\ gpc' = [gpc EXCEPT ![g] = "log_init"]
    /\ UNCHANGED <<heap, lvalues, gloc, returned, genVars, unitVars, execVars>>

\* lines 76-78: the map is made on first use
LogInit(g) ==
    /\ gpc[g] = "log_init"
    /\ IF lvalues = 0
       THEN /\ heap' = Append(heap, {})
            /\ lvalues' = Len(heap) + 1
       ELSE UNCHANGED <<heap, lvalues>>
    /\ gpc' = [gpc EXCEPT ![g] = "log_loop"]
    /\ UNCHANGED <<lock, gloc, history, returned, genVars, unitVars, execVars>>

\* lines 79-85: one turn of the loop stores one key
LogStore(g) ==
    /\ gpc[g] = "log_loop"
    /\ gloc[g].i <= Len(gloc[g].values)
    /\ LET i      == gloc[g].i
           values == gloc[g].values
           v      == IF i + 1 > Len(values) THEN NilValue ELSE values[i + 1]
       IN  heap' = [heap EXCEPT ![lvalues] = MapSet(@, FormatKey(values[i]), v)]
    /\ gloc' = [gloc EXCEPT ![g].i = @ + 2]
    /\ UNCHANGED <<lvalues, lock, gpc, history, returned, genVars, unitVars, execVars>>

\* line 75, run at return: defer l.lock.Unlock()
LogUnlock(g) ==
    /\ gpc[g] = "log_loop"
    /\ gloc[g].i > Len(gloc[g].values)
    /\ lock' = 0
    /\ gpc' = [gpc EXCEPT ![g] = "idle"]
    /\ gloc' = [gloc EXCEPT ![g] = GIdle]
    /\ UNCHANGED <<heap, lvalues, history, returned, genVars, unitVars, execVars>>

\* A goroutine calls l.GetAll().
GetAllCall(g) ==
    /\ gpc[g] = "idle"
    /\ GetAllsStarted < MaxGetAll
    /\ gpc' = [gpc EXCEPT ![g] = "get_lock"]
    /\ UNCHANGED <<heap, lvalues, lock, gloc, history, returned, genVars, unitVars, execVars>>

\* line 92: l.lock.Lock()
GetAllLock(g) ==
    /\ gpc[g] = "get_lock"
    /\ LockFree
    /\ lock' = g
    /\ gloc' = [gloc EXCEPT ![g].seen = Len(history)]
    /\ gpc' = [gpc EXCEPT ![g] = "get_make"]
    /\ UNCHANGED <<heap, lvalues, history, returned, genVars, unitVars, execVars>>

\* lines 94-95: a new map is made and the range over l.lvalues starts (a nil
\* map has no keys)
GetAllMake(g) ==
    /\ gpc[g] = "get_make"
    /\ heap' = Append(heap, {})
    /\ gloc' = [gloc EXCEPT ![g].result = Len(heap) + 1,
                            ![g].todo = IF lvalues = 0 THEN {} ELSE MapKeys(heap[lvalues])]
    /\ gpc' = [gpc EXCEPT ![g] = "get_range"]
    /\ UNCHANGED <<lvalues, lock, history, returned, genVars, unitVars, execVars>>

\* lines 95-97: one turn of the range copies one key, in no fixed order
GetAllCopy(g, k) ==
    /\ gpc[g] = "get_range"
    /\ k \in gloc[g].todo
    /\ heap' = [heap EXCEPT ![gloc[g].result] = MapSet(@, k, MapGet(heap[lvalues], k))]
    /\ gloc' = [gloc EXCEPT ![g].todo = @ \ {k}]
    /\ UNCHANGED <<lvalues, lock, gpc, history, returned, genVars, unitVars, execVars>>

\* lines 93 and 98: the result is returned and the deferred Unlock runs
GetAllReturn(g) ==
    /\ gpc[g] = "get_range"
    /\ gloc[g].todo = {}
    /\ lock' = 0
    /\ returned' = Append(returned, [id |-> gloc[g].result,
                                     snapshot |-> heap[gloc[g].result],
                                     seen |-> gloc[g].seen])
    /\ gpc' = [gpc EXCEPT ![g] = "idle"]
    /\ gloc' = [gloc EXCEPT ![g] = GIdle]
    /\ UNCHANGED <<heap, lvalues, history, genVars, unitVars, execVars>>

NextLog ==
    \/ \E g \in Goroutines, values \in LogValues : LogCall(g, values)
    \/ \E g \in Goroutines : LogLock(g)
    \/ \E g \in Goroutines : LogInit(g)
    \/ \E g \in Goroutines : LogStore(g)
    \/ \E g \in Goroutines : LogUnlock(g)
    \/ \E g \in Goroutines : GetAllCall(g)
    \/ \E g \in Goroutines : GetAllLock(g)
    \/ \E g \in Goroutines : GetAllMake(g)
    \/ \E g \in Goroutines, k \in {"a", "b"} : GetAllCopy(g, k)
    \/ \E g \in Goroutines : GetAllReturn(g)

SpecLog == InitLog /\ [][NextLog]_vars

RECURSIVE ApplyPairs(_, _, _)
\* The map after the pairs of one Log call, from position i on, are stored in m.
ApplyPairs(m, values, i) ==
    IF i > Len(values) THEN m
    ELSE ApplyPairs(MapSet(m, values[i],
                           IF i + 1 > Len(values) THEN NilValue ELSE values[i + 1]),
                    values, i + 2)

RECURSIVE ApplyCalls(_, _)
\* The map after the first n Log calls of the history, each applied whole.
ApplyCalls(calls_, n) ==
    IF n = 0 THEN {}
    ELSE ApplyPairs(ApplyCalls(calls_, n - 1), calls_[n], 1)

\* C8: under any interleaving, a map returned by GetAll holds exactly the pairs
\* of the Log calls that took the lock before it, each call whole (all or none
\* of a call's pairs, no write lost); it is a map of its own that no later Log
\* call changes; and once no call holds the lock the accumulator holds every
\* Log call's pairs.
C8_LogAtomicAndCopied ==
    /\ \A n \in DOMAIN returned :
          /\ returned[n].snapshot = ApplyCalls(history, returned[n].seen)
          /\ heap[returned[n].id] = returned[n].snapshot
          /\ returned[n].id # lvalues
    /\ (lock = 0 /\ lvalues # 0) => heap[lvalues] = ApplyCalls(history, Len(history))
    /\ (lock = 0 /\ lvalues = 0) => history = <<>>

\* A Log call is between its two stores while a GetAll waits for the lock, and
\* an earlier GetAll returned a non-empty map that the accumulator has since
\* moved on from.
C8_Witness ==
    \E g \in Goroutines, h \in Goroutines :
        /\ gpc[g] = "log_loop" /\ gloc[g].i = 3 /\ Len(gloc[g].values) = 4
        /\ gpc[h] = "get_lock"
        /\ \E n \in DOMAIN returned :
              /\ returned[n].snapshot # {}
              /\ returned[n].snapshot # heap[lvalues]

====
